---- MODULE Spec2Model ----
(***************************************************************************)
(* A state-machine model of HomomorphismSearcher                           *)
(* (src/src/homomorphism_searcher.cc): the recursive restarting search,    *)
(* the unit-propagation loop and its filters, and the nogood posting.      *)
(* The recursion of restarting_search is an explicit stack of frames; one  *)
(* action is one stretch of a frame's code between two calls or returns.   *)
(***************************************************************************)
EXTENDS Integers, Sequences, FiniteSets, TLC

VARIABLES
    model,            \* the immutable HomomorphismModel
    params,           \* the immutable HomomorphismParams
    assignments,      \* the trail: HomomorphismAssignments::values
    stack,            \* the frames of restarting_search, innermost last
    watches,          \* the watch store: the nogoods, two watched literals first
    nodes,            \* unsigned long long & nodes
    propagations,     \* unsigned long long & propagations
    solution_count,   \* loooong & solution_count
    pc,               \* "call" | "loop" | "return" | "done"
    result,           \* the SearchResult of the invocation that returned last
    expired,          \* what params.timeout->should_abort() answers
    backtracks,       \* calls of restarts_schedule.did_a_backtrack()
    restarts,         \* re-entries of the top-level caller after Restart
    emitted,          \* the mappings passed to params.enumerate_callback
    root_domains,     \* the domains the top-level caller passes in
    returned,         \* facts about the invocation that returned last
    propagated        \* facts about the call of propagate that returned last:
                      \* its arguments use_lackey and the lackey's reply, its result

vars == <<model, params, assignments, stack, watches, nodes, propagations,
          solution_count, pc, result, expired, backtracks, restarts, emitted,
          root_domains, returned,
                   propagated>>

----------------------------------------------------------------------------
(* Bounds of the model *)

MaxRestarts == 1
MaxDeletions == 1
MaxTarget == 3

----------------------------------------------------------------------------
(* Small helpers *)

Min(S) == CHOOSE x \in S : \A y \in S : x <= y
Max(S) == CHOOSE x \in S : \A y \in S : x >= y
Range(s) == {s[i] : i \in 1..Len(s)}
Sym(E) == E \cup {<<e[2], e[1]>> : e \in E}

PatternVertices == 0..(model.pattern_size - 1)
TargetVertices == 0..(model.target_size - 1)

----------------------------------------------------------------------------
(* The model's queries, as the searcher consumes them *)

\* pattern_adjacency_bits(u, v) & (1u << g)
pattern_adjacency_bit(u, v, g) == <<u, v>> \in model.pattern_edges[g]

target_graph_row(g, t) == {c \in TargetVertices : <<t, c>> \in model.target_edges[g]}

forward_target_graph_row(t) == {c \in TargetVertices : <<t, c>> \in model.target_edges[0]}

reverse_target_graph_row(t) == {c \in TargetVertices : <<c, t>> \in model.target_edges[0]}

pattern_graph_row(g, v) == {w \in PatternVertices : <<v, w>> \in model.pattern_edges[g]}

pattern_degree(g, v) == Cardinality(pattern_graph_row(g, v))

target_degree(g, v) == Cardinality(target_graph_row(g, v))

pattern_edge_label(u, v) == model.pattern_labels[<<u, v>>]

target_edge_label(u, v) == model.target_labels[<<u, v>>]

----------------------------------------------------------------------------
(* Trail entries and domains *)

Assignment(p, t) == [pattern_vertex |-> p, target_vertex |-> t]

TrailEntry(p, t, dec, disc, choice) ==
    [assignment |-> Assignment(p, t), is_decision |-> dec,
     discrepancy_count |-> disc, choice_count |-> choice]

\* HomomorphismAssignments::contains
contains(trail, a) == \E i \in 1..Len(trail) : trail[i].assignment = a

\* a fault: only the decisions are put into the mapping
expand_to_full_result_Decisions(trail) ==
    LET is == {i \in 1..Len(trail) : trail[i].is_decision}
    IN [p \in {trail[i].assignment.pattern_vertex : i \in is} |->
           trail[Min({i \in is : trail[i].assignment.pattern_vertex = p})]
              .assignment.target_vertex]

\* mapping.emplace keeps the first target of a pattern vertex
expand_to_full_result(trail) ==
    LET ps == {trail[i].assignment.pattern_vertex : i \in 1..Len(trail)}
        first(p) == Min({i \in 1..Len(trail) : trail[i].assignment.pattern_vertex = p})
    IN [p \in ps |-> trail[first(p)].assignment.target_vertex]

----------------------------------------------------------------------------
(* propagate_adjacency_constraints<directed_, has_edge_labels_, induced_> *)

\* a fault: the supplemental pairs are complemented under induced as well
propagate_adjacency_constraints_Complemented(d, current_assignment, directed_, has_edge_labels_, induced_) ==
    LET p == current_assignment.pattern_vertex
        t == current_assignment.target_vertex
        fwd == pattern_adjacency_bit(p, d.v, 0)
        rev == pattern_adjacency_bit(d.v, p, 0)
        filter(vals, bit, row) ==
            IF bit THEN vals \cap row
            ELSE IF induced_ THEN vals \ row ELSE vals
        v0 == IF ~directed_
              THEN filter(d.values, fwd, target_graph_row(0, t))
              ELSE filter(filter(d.values, fwd, forward_target_graph_row(t)),
                          rev, reverse_target_graph_row(t))
        v1 == {c \in v0 : \A g \in 1..(model.max_graphs - 1) :
                  IF pattern_adjacency_bit(p, d.v, g) THEN c \in target_graph_row(g, t)
                  ELSE induced_ => c \notin target_graph_row(g, t)}
        v2 == IF has_edge_labels_ /\ fwd
              THEN {c \in v1 : target_edge_label(t, c) = pattern_edge_label(p, d.v)}
              ELSE v1
        v3 == IF has_edge_labels_ /\ rev
              THEN {c \in v2 : target_edge_label(c, t) = pattern_edge_label(d.v, p)}
              ELSE v2
    IN [d EXCEPT !.values = v3]

propagate_adjacency_constraints(d, current_assignment, directed_, has_edge_labels_, induced_) ==
    LET p == current_assignment.pattern_vertex
        t == current_assignment.target_vertex
        fwd == pattern_adjacency_bit(p, d.v, 0)
        rev == pattern_adjacency_bit(d.v, p, 0)
        filter(vals, bit, row) ==
            IF bit THEN vals \cap row
            ELSE IF induced_ THEN vals \ row ELSE vals
        v0 == IF ~directed_
              THEN filter(d.values, fwd, target_graph_row(0, t))
              ELSE filter(filter(d.values, fwd, forward_target_graph_row(t)),
                          rev, reverse_target_graph_row(t))
        v1 == {c \in v0 : \A g \in 1..(model.max_graphs - 1) :
                  pattern_adjacency_bit(p, d.v, g) => c \in target_graph_row(g, t)}
        v2 == IF has_edge_labels_ /\ fwd
              THEN {c \in v1 : target_edge_label(t, c) = pattern_edge_label(p, d.v)}
              ELSE v1
        v3 == IF has_edge_labels_ /\ rev
              THEN {c \in v2 : target_edge_label(c, t) = pattern_edge_label(d.v, p)}
              ELSE v2
    IN [d EXCEPT !.values = v3]

both_in_the_neighbourhood_of_some_vertex(v, w) ==
    (pattern_graph_row(0, v) \cap pattern_graph_row(0, w)) # {}

\* a fault: the target vertex is removed whatever the injectivity mode
injectivity_filter_Always(d, current_assignment) ==
    [d EXCEPT !.values = @ \ {current_assignment.target_vertex}]

\* the injectivity switch of propagate_simple_constraints
injectivity_filter(d, current_assignment) ==
    CASE params.injectivity = "Injective" ->
            [d EXCEPT !.values = @ \ {current_assignment.target_vertex}]
      [] params.injectivity = "LocallyInjective" ->
            IF both_in_the_neighbourhood_of_some_vertex(current_assignment.pattern_vertex, d.v)
            THEN [d EXCEPT !.values = @ \ {current_assignment.target_vertex}]
            ELSE d
      [] OTHER -> d

\* a fault: no adjacency filtering
adjacency_filter_None(d, current_assignment) == d

\* the adjacency dispatch of propagate_simple_constraints
adjacency_filter(d, current_assignment) ==
    propagate_adjacency_constraints(d, current_assignment,
        IF ~model.has_edge_labels THEN model.directed ELSE TRUE,
        model.has_edge_labels, params.induced)

\* the domains are filtered in order; the first empty one ends the loop
RECURSIVE simple_constraints_from(_, _, _)
simple_constraints_from(new_domains, current_assignment, i) ==
    IF i > Len(new_domains) THEN [ok |-> TRUE, domains |-> new_domains]
    ELSE IF new_domains[i].fixed
    THEN simple_constraints_from(new_domains, current_assignment, i + 1)
    ELSE LET counted(d) == [d EXCEPT !.count = Cardinality(d.values)]
             rest(nd) ==
                 IF nd[i].count = 0 THEN [ok |-> FALSE, domains |-> nd]
                 ELSE simple_constraints_from(nd, current_assignment, i + 1)
         IN rest([new_domains EXCEPT ![i] =
                     counted(adjacency_filter(
                        injectivity_filter(new_domains[i], current_assignment),
                        current_assignment))])

propagate_simple_constraints(new_domains, current_assignment) ==
    simple_constraints_from(new_domains, current_assignment, 1)

----------------------------------------------------------------------------
(* propagate_less_thans *)

\* find_domain[v]: the position of v's domain in new_domains, or -1
find_domain(new_domains, v) ==
    LET is == {i \in 1..Len(new_domains) : new_domains[i].v = v}
    IN IF is = {} THEN -1 ELSE Max(is)

\* a fault: the first allowed value of b is removed too
RECURSIVE less_thans_first_pass_Strict(_, _)
less_thans_first_pass_Strict(new_domains, k) ==
    IF k > Len(model.pattern_less_thans_in_convenient_order)
    THEN [ok |-> TRUE, domains |-> new_domains]
    ELSE LET a == model.pattern_less_thans_in_convenient_order[k][1]
             b == model.pattern_less_thans_in_convenient_order[k][2]
             ia == find_domain(new_domains, a)
             ib == find_domain(new_domains, b)
         IN IF ia = -1 \/ ib = -1 THEN less_thans_first_pass_Strict(new_domains, k + 1)
            ELSE IF new_domains[ia].values = {} THEN [ok |-> FALSE, domains |-> new_domains]
            ELSE LET first_allowed_b == Min(new_domains[ia].values) + 1
                     bvals == {v \in new_domains[ib].values : v > first_allowed_b}
                     nd == [new_domains EXCEPT ![ib].values = bvals,
                                               ![ib].count = Cardinality(bvals)]
                 IN IF first_allowed_b >= model.target_size
                    THEN [ok |-> FALSE, domains |-> new_domains]
                    ELSE IF bvals = {} THEN [ok |-> FALSE, domains |-> nd]
                    ELSE less_thans_first_pass_Strict(nd, k + 1)

\* first loop: the first value of b is at least one after the first value of a
RECURSIVE less_thans_first_pass(_, _)
less_thans_first_pass(new_domains, k) ==
    IF k > Len(model.pattern_less_thans_in_convenient_order)
    THEN [ok |-> TRUE, domains |-> new_domains]
    ELSE LET a == model.pattern_less_thans_in_convenient_order[k][1]
             b == model.pattern_less_thans_in_convenient_order[k][2]
             ia == find_domain(new_domains, a)
             ib == find_domain(new_domains, b)
         IN IF ia = -1 \/ ib = -1 THEN less_thans_first_pass(new_domains, k + 1)
            ELSE IF new_domains[ia].values = {} THEN [ok |-> FALSE, domains |-> new_domains]
            ELSE LET first_allowed_b == Min(new_domains[ia].values) + 1
                     bvals == {v \in new_domains[ib].values : v >= first_allowed_b}
                     nd == [new_domains EXCEPT ![ib].values = bvals,
                                               ![ib].count = Cardinality(bvals)]
                 IN IF first_allowed_b >= model.target_size
                    THEN [ok |-> FALSE, domains |-> new_domains]
                    ELSE IF bvals = {} THEN [ok |-> FALSE, domains |-> nd]
                    ELSE less_thans_first_pass(nd, k + 1)

\* second loop: the last value of a is at least one before the last value of b
RECURSIVE less_thans_second_pass(_, _)
less_thans_second_pass(new_domains, k) ==
    IF k > Len(model.pattern_less_thans_in_convenient_order)
    THEN [ok |-> TRUE, domains |-> new_domains]
    ELSE LET a == model.pattern_less_thans_in_convenient_order[k][1]
             b == model.pattern_less_thans_in_convenient_order[k][2]
             ia == find_domain(new_domains, a)
             ib == find_domain(new_domains, b)
         IN IF ia = -1 \/ ib = -1 THEN less_thans_second_pass(new_domains, k + 1)
            ELSE IF new_domains[ib].values = {}
            \* last_b stays npos: nothing is above last_b - 1
            THEN less_thans_second_pass(
                    [new_domains EXCEPT ![ia].count = Cardinality(new_domains[ia].values)], k + 1)
            ELSE LET last_b == Max(new_domains[ib].values)
                     avals == {v \in new_domains[ia].values : v <= last_b - 1}
                     nd == [new_domains EXCEPT ![ia].values = avals,
                                               ![ia].count = Cardinality(avals)]
                 IN IF last_b = 0 THEN [ok |-> FALSE, domains |-> new_domains]
                    ELSE IF avals = {} THEN [ok |-> FALSE, domains |-> nd]
                    ELSE less_thans_second_pass(nd, k + 1)

propagate_less_thans(new_domains) ==
    LET second(r) == IF r.ok THEN less_thans_second_pass(r.domains, 1) ELSE r
    IN second(less_thans_first_pass(new_domains, 1))

propagate_hyperedge_constraints(new_domains, current_assignment) == TRUE

----------------------------------------------------------------------------
(* cheap_all_different (cheap_all_different.hh): the domains are taken smallest
   count first, in vector order among equals; the values of the Hall sets found so
   far are removed from each, and the union seen so far is counted against the
   number of domains seen. *)

cheap_order(new_domains) ==
    LET n == Len(new_domains)
    IN CHOOSE s \in [1..n -> 1..n] :
          /\ \A i, j \in 1..n : i # j => s[i] # s[j]
          /\ \A i, j \in 1..n : i < j =>
                \/ new_domains[s[i]].count < new_domains[s[j]].count
                \/ new_domains[s[i]].count = new_domains[s[j]].count /\ s[i] < s[j]

RECURSIVE cheap_all_different_from(_, _, _, _, _, _)
cheap_all_different_from(new_domains, order, k, domains_so_far, hall, neighbours_so_far) ==
    IF k > Len(new_domains) THEN [ok |-> TRUE, domains |-> new_domains]
    ELSE LET i == order[k]
             vals == new_domains[i].values \ hall
             nd == [new_domains EXCEPT ![i].values = vals, ![i].count = Cardinality(vals)]
             so_far == domains_so_far \cup vals
             n == neighbours_so_far + 1
         IN IF vals = {} THEN [ok |-> FALSE, domains |-> nd]
            ELSE IF Cardinality(so_far) < n THEN [ok |-> FALSE, domains |-> nd]
            ELSE cheap_all_different_from(nd, order, k + 1, so_far,
                    IF Cardinality(so_far) = n THEN hall \cup so_far ELSE hall, n)

cheap_all_different(new_domains) ==
    cheap_all_different_from(new_domains, cheap_order(new_domains), 1, {}, {}, 0)

----------------------------------------------------------------------------
(* The watch store (watches.hh): every nogood is a sequence of literals whose
   first two are the watched ones. *)

might_have_watches == params.might_have_watches

watches_post_nogood(w, nogood) == Append(w, nogood)

swap(s, i, j) == [s EXCEPT ![i] = s[j], ![j] = s[i]]

\* the on-unit callback handed to watches.propagate by propagate: the value is
\* cleared, the count is left as it was
on_unit_nogood(new_domains, a) ==
    LET is == {i \in 1..Len(new_domains) :
                  ~new_domains[i].fixed /\ new_domains[i].v = a.pattern_vertex}
    IN IF is = {} THEN new_domains
       ELSE [new_domains EXCEPT ![Min(is)].values = @ \ {a.target_vertex}]

\* one nogood of the watch list of current_assignment: watch another literal
\* that the trail does not hold, or fire on the other watched literal
RECURSIVE watches_propagate_from(_, _, _, _, _, _)
watches_propagate_from(w, current_assignment, trail, new_domains, k, fired) ==
    IF k > Len(w) THEN [watches |-> w, domains |-> new_domains, fired |-> fired]
    ELSE LET n == w[k]
             watched == Len(n) >= 2 /\ (n[1] = current_assignment \/ n[2] = current_assignment)
             n1 == IF n[1] # current_assignment THEN swap(n, 1, 2) ELSE n
             free == {j \in 3..Len(n1) : ~contains(trail, n1[j])}
         IN IF ~watched
            THEN watches_propagate_from(w, current_assignment, trail, new_domains, k + 1, fired)
            ELSE IF free # {}
            THEN watches_propagate_from([w EXCEPT ![k] = swap(n1, 1, Min(free))],
                                        current_assignment, trail, new_domains, k + 1, fired)
            ELSE watches_propagate_from([w EXCEPT ![k] = n1], current_assignment, trail,
                                        on_unit_nogood(new_domains, n1[2]), k + 1,
                                        IF on_unit_nogood(new_domains, n1[2]) # new_domains
                                        THEN fired + 1 ELSE fired)

\* fired: how many calls of the on-unit callback cleared a value
watches_propagate(w, current_assignment, trail, new_domains) ==
    watches_propagate_from(w, current_assignment, trail, new_domains, 1, 0)

----------------------------------------------------------------------------
(* propagate *)

\* a fault: no unit domain is ever found
find_unit_domain_None(new_domains) == 0

\* find_unit_domain: the first domain that is not fixed and has count 1, or 0
find_unit_domain(new_domains) ==
    LET is == {i \in 1..Len(new_domains) : ~new_domains[i].fixed /\ new_domains[i].count = 1}
    IN IF is = {} THEN 0 ELSE Min(is)

\* a fault: an iteration of the loop that filters nothing
filters_after_watches_None(new_domains, current_assignment) ==
    [ok |-> TRUE, domains |-> new_domains]

\* the filters that follow the watches in one iteration of the loop
filters_after_watches(new_domains, current_assignment) ==
    LET all_different(l) ==
            IF l.ok /\ params.injectivity = "Injective"
            THEN cheap_all_different(l.domains) ELSE l
        less_thans(h) ==
            all_different(IF h.ok /\ model.has_less_thans
                          THEN propagate_less_thans(h.domains) ELSE h)
        hyperedges(s) ==
            less_thans(IF s.ok /\ params.bigraph
                          /\ ~propagate_hyperedge_constraints(s.domains, current_assignment)
                       THEN [s EXCEPT !.ok = FALSE] ELSE s)
    IN hyperedges(propagate_simple_constraints(new_domains, current_assignment))

\* the loop of propagate: whilst there is a unit domain
RECURSIVE propagate_loop(_, _, _, _)
propagate_loop(new_domains, trail, w, fired) ==
    LET unit(i) ==
            LET current_assignment ==
                    Assignment(new_domains[i].v, Min(new_domains[i].values))
                trail1 == Append(trail, TrailEntry(current_assignment.pattern_vertex,
                                    current_assignment.target_vertex, FALSE, -1, -1))
                filtered(wp, f) ==
                    IF ~f.ok
                    THEN [ok |-> FALSE, domains |-> f.domains, assignments |-> trail1,
                          watches |-> wp.watches, fired |-> fired + wp.fired, dcount |-> 0]
                    ELSE propagate_loop(f.domains, trail1, wp.watches, fired + wp.fired)
                watched(wp) ==
                    filtered(wp, filters_after_watches(wp.domains, current_assignment))
                fix(fixed) ==
                    watched(IF might_have_watches
                            THEN watches_propagate(w, current_assignment, trail1, fixed)
                            ELSE [watches |-> w, domains |-> fixed, fired |-> 0])
            IN fix([new_domains EXCEPT ![i].fixed = TRUE])
        found(i) ==
            IF i = 0
            THEN [ok |-> TRUE, domains |-> new_domains, assignments |-> trail, watches |-> w,
                  fired |-> fired, dcount |-> 0]
            ELSE unit(i)
    IN found(find_unit_domain(new_domains))

\* a fault: the deletion callback clears the value and leaves the count
RECURSIVE lackey_deletions_NoCount(_, _, _, _, _)
lackey_deletions_NoCount(new_domains, deletions, k, wipeout, dcount) ==
    IF k > Len(deletions)
    THEN [domains |-> new_domains, wipeout |-> wipeout, dcount |-> dcount]
    ELSE LET is == {i \in 1..Len(new_domains) : new_domains[i].v = deletions[k][1]}
         IN IF is = {} \/ deletions[k][2] \notin new_domains[Min(is)].values
            THEN lackey_deletions_NoCount(new_domains, deletions, k + 1, wipeout, dcount)
            ELSE lackey_deletions_NoCount(
                    [new_domains EXCEPT ![Min(is)].values = @ \ {deletions[k][2]}],
                    deletions, k + 1, wipeout, dcount + 1)

\* the deletion callback handed to the lackey, called for deletions[k..]
RECURSIVE lackey_deletions(_, _, _, _, _)
lackey_deletions(new_domains, deletions, k, wipeout, dcount) ==
    IF k > Len(deletions)
    THEN [domains |-> new_domains, wipeout |-> wipeout, dcount |-> dcount]
    ELSE LET p == deletions[k][1]
             t == deletions[k][2]
             is == {i \in 1..Len(new_domains) : new_domains[i].v = p}
             i == Min(is)
         IN IF wipeout \/ is = {} \/ t \notin new_domains[i].values
            THEN lackey_deletions(new_domains, deletions, k + 1, wipeout, dcount)
            ELSE lackey_deletions(
                    [new_domains EXCEPT ![i].values = @ \ {t}, ![i].count = @ - 1],
                    deletions, k + 1, new_domains[i].count - 1 = 0, dcount + 1)

\* whether propagate consults the lackey after the loop
lackey_consulted(propagate_using_lackey) ==
    params.lackey /\ (propagate_using_lackey \/ params.send_partials_to_lackey)

\* reply: what lackey->check_solution does on this call, its answer and the
\* deletions it asks for through the callback
propagate(new_domains, trail, w, propagate_using_lackey, reply) ==
    LET checked(r, del) ==
            [r EXCEPT !.ok = reply.ok /\ ~del.wipeout, !.domains = del.domains,
                      !.dcount = del.dcount]
        looped(r) ==
            IF ~r.ok THEN r
            ELSE IF lackey_consulted(propagate_using_lackey)
            THEN checked(r, lackey_deletions(r.domains,
                               IF propagate_using_lackey THEN reply.deletions ELSE <<>>,
                               1, FALSE, 0))
            ELSE r
    IN looped(propagate_loop(new_domains, trail, w, 0))

----------------------------------------------------------------------------
(* Branching: find_branch_domain, the value orderings, the domain copy *)

\* the loop of find_branch_domain over domains[i..], result being the best so far
RECURSIVE find_branch_domain_from(_, _, _)
find_branch_domain_from(domains, i, best) ==
    IF i > Len(domains) THEN best
    ELSE LET d == domains[i]
             better == \/ best = 0
                       \/ d.count < domains[best].count
                       \/ /\ d.count = domains[best].count
                          /\ pattern_degree(0, d.v) > pattern_degree(0, domains[best].v)
         IN find_branch_domain_from(domains, i + 1, IF ~d.fixed /\ better THEN i ELSE best)

\* a fault: the first domain that is not fixed is taken, whatever its count
find_branch_domain_First(domains) ==
    LET is == {i \in 1..Len(domains) : ~domains[i].fixed}
    IN IF is = {} THEN 0 ELSE Min(is)

\* the position of the branch domain, 0 for nullptr
find_branch_domain(domains) == find_branch_domain_from(domains, 1, 0)

\* a fault: the copy leaves the branch domain as it was
copy_nonfixed_domains_Unassigned(domains, branch_v, f_v) ==
    SelectSeq(domains, LAMBDA d : ~d.fixed)

copy_nonfixed_domains_and_make_assignment(domains, branch_v, f_v) ==
    LET keep == SelectSeq(domains, LAMBDA d : ~d.fixed)
    IN [i \in 1..Len(keep) |->
          IF keep[i].v = branch_v
          THEN [keep[i] EXCEPT !.values = {f_v}, !.count = 1]
          ELSE keep[i]]

\* the remaining values of a domain, lowest first (the find_first loop)
RECURSIVE values_in_order(_)
values_in_order(S) == IF S = {} THEN <<>> ELSE <<Min(S)>> \o values_in_order(S \ {Min(S)})

Orderings(s) ==
    {[i \in 1..Len(s) |-> s[q[i]]] :
        q \in {f \in [1..Len(s) -> 1..Len(s)] : \A i, j \in 1..Len(s) : i # j => f[i] # f[j]}}

\* the orders stable_sort can leave branch_v in. With reverse the comparator is
\* degree(a) < degree(b), a strict weak ordering, and the order is the stable one.
\* Without it the comparator is degree(a) >= degree(b), which is not one:
\* the values end in non-increasing degree, equal degrees in an order the
\* library picks.
degree_sort(branch_v, reverse) ==
    IF reverse
    THEN {s \in Orderings(branch_v) : \A i, j \in 1..Len(s) : i < j =>
             \/ target_degree(0, s[i]) < target_degree(0, s[j])
             \/ target_degree(0, s[i]) = target_degree(0, s[j]) /\ s[i] < s[j]}
    ELSE {s \in Orderings(branch_v) : \A i, j \in 1..Len(s) : i < j =>
             target_degree(0, s[i]) >= target_degree(0, s[j])}

\* every value can be drawn at every position
softmax_shuffle(branch_v) == Orderings(branch_v)

\* a fault: the last value is lost
value_orderings_Short(branch_v) == {SubSeq(branch_v, 1, Len(branch_v) - 1)}

\* the switch on params.value_ordering_heuristic
value_orderings(branch_v) ==
    CASE params.value_ordering_heuristic = "Degree" -> degree_sort(branch_v, FALSE)
      [] params.value_ordering_heuristic = "AntiDegree" -> degree_sort(branch_v, TRUE)
      [] params.value_ordering_heuristic = "Biased" -> softmax_shuffle(branch_v)
      [] OTHER -> Orderings(branch_v)

----------------------------------------------------------------------------
(* Nogood posting *)

\* a fault: the last decision is left out of the nogood
decision_literals_Short(trail) ==
    LET ds == SelectSeq(trail, LAMBDA a : a.is_decision)
    IN [i \in 1..(Len(ds) - 1) |-> ds[i].assignment]

\* a fault: the unit-propagated assignments are collected too
decision_literals_All(trail) ==
    [i \in 1..Len(trail) |-> trail[i].assignment]

decision_literals(trail) ==
    LET ds == SelectSeq(trail, LAMBDA a : a.is_decision)
    IN [i \in 1..Len(ds) |-> ds[i].assignment]

post_nogood(w, trail) ==
    IF ~might_have_watches THEN w
    ELSE watches_post_nogood(w, decision_literals(trail))

\* a fault: the decisions on link vertices are collected too
post_solution_nogood_Links(w, trail) ==
    watches_post_nogood(w, decision_literals(trail))

post_solution_nogood(w, trail) ==
    LET ds == SelectSeq(trail, LAMBDA a :
                 a.is_decision
                 /\ a.assignment.pattern_vertex < model.pattern_size - model.pattern_link_count)
    IN watches_post_nogood(w, [i \in 1..Len(ds) |-> ds[i].assignment])

\* a fault: the transient decision is posted on its own, without the trail
RECURSIVE post_retry_nogoods_Alone(_, _, _, _, _, _)
post_retry_nogoods_Alone(w, trail, v, branch_v, l, f_v) ==
    IF l >= f_v THEN w
    ELSE post_retry_nogoods_Alone(
            post_nogood(w, <<TrailEntry(v, branch_v[l], TRUE, -2, -2)>>),
            trail, v, branch_v, l + 1, f_v)

\* a fault: the value whose recursive call returned Restart is gone through too
RECURSIVE post_retry_nogoods_Inclusive(_, _, _, _, _, _)
post_retry_nogoods_Inclusive(w, trail, v, branch_v, l, f_v) ==
    IF l > f_v THEN w
    ELSE post_retry_nogoods_Inclusive(
            post_nogood(w, Append(trail, TrailEntry(v, branch_v[l], TRUE, -2, -2))),
            trail, v, branch_v, l + 1, f_v)

\* the Restart case: one nogood for every value of branch_v before position f_v,
\* each posted with a transient decision on the trail
RECURSIVE post_retry_nogoods(_, _, _, _, _, _)
post_retry_nogoods(w, trail, v, branch_v, l, f_v) ==
    IF l >= f_v THEN w
    ELSE post_retry_nogoods(
            post_nogood(w, Append(trail, TrailEntry(v, branch_v[l], TRUE, -2, -2))),
            trail, v, branch_v, l + 1, f_v)

----------------------------------------------------------------------------
(* restarting_search: the frames *)

\* the locals of one invocation; entry_size is the trail length it was entered with
Frame(domains, depth, entry_size) ==
    [domains |-> domains, depth |-> depth, entry_size |-> entry_size,
     branch_domain |-> 0, branch_v |-> <<>>, f_v |-> 1, discrepancy_count |-> 0,
     actually_hit_a_failure |-> FALSE, use_lackey_for_propagation |-> FALSE,
     assignments_size |-> entry_size]

Top == stack[Len(stack)]

\* a fault: the trail is not cut back
resize_Keep(trail, assignments_size) == trail

\* assignments.values.resize(assignments_size)
resize(trail, assignments_size) == SubSeq(trail, 1, assignments_size)

\* the invocation f returns r to its caller; should_restart is what
\* restarts_schedule.should_restart() answered, if it was asked, and retried is
\* the number of values the loop of the Restart case went through; verdict tells
\* how a full mapping fared: "bigraph" or "lackey" for the check that rejected
\* it, "accepted", and "none" when the invocation had no full mapping
ReturnWith(r, f, should_restart, verdict) ==
    /\ result' = r
    /\ stack' = SubSeq(stack, 1, Len(stack) - 1)
    /\ pc' = IF Len(stack) = 1 THEN "done" ELSE "return"
    /\ returned' = [entry_size |-> f.entry_size, depth |-> f.depth,
                     should_restart |-> should_restart,
                     retried |-> IF pc = "return" /\ r = "Restart" THEN f.f_v - 1 ELSE 0,
                     discrepancy_count |-> f.discrepancy_count,
                     verdict |-> verdict]

\* a return of an invocation that had no full mapping
ReturnAfter(r, f, should_restart) == ReturnWith(r, f, should_restart, "none")

\* a return that does not follow a call of restarts_schedule.should_restart()
Return(r, f) == ReturnAfter(r, f, FALSE)

\* what the lackey may do on one call of check_solution with a deletion callback
LackeyReplies ==
    {[ok |-> ok, deletions |-> ds] :
        ok \in BOOLEAN,
        ds \in UNION {[1..n -> PatternVertices \X TargetVertices] : n \in 0..MaxDeletions}}

\* the timeout runs out
Expire ==
    /\ params.timeout /\ ~expired /\ pc # "done"
    /\ expired' = TRUE
    /\ UNCHANGED <<model, params, assignments, stack, watches, nodes, propagations,
                   solution_count, pc, result, backtracks, restarts, emitted,
                   root_domains, returned,
                   propagated>>

\* a fault: the node is counted before should_abort() is probed
EnterAbort_Counted ==
    /\ pc = "call" /\ expired
    /\ Return("Aborted", Top)
    /\ nodes' = nodes + 1
    /\ UNCHANGED <<model, params, assignments, watches, propagations,
                   solution_count, expired, backtracks, restarts, emitted, root_domains,
                   propagated>>

\* lines 73-74: should_abort() is probed first
EnterAbort ==
    /\ pc = "call" /\ expired
    /\ Return("Aborted", Top)
    /\ UNCHANGED <<model, params, assignments, watches, nodes, propagations,
                   solution_count, expired, backtracks, restarts, emitted, root_domains,
                   propagated>>

\* lines 76-124: no branch domain is left
EnterSolution ==
    /\ pc = "call" /\ ~expired
    /\ find_branch_domain(Top.domains) = 0
    /\ nodes' = nodes + 1
    /\ \E bigraph_ok \in (IF params.bigraph THEN BOOLEAN ELSE {TRUE}),
          lackey_ok \in (IF params.lackey THEN BOOLEAN ELSE {TRUE}) :
          LET mapping == expand_to_full_result(assignments)
          IN IF ~bigraph_ok
             THEN /\ watches' = post_solution_nogood(watches, assignments)
                  /\ ReturnWith("Unsatisfiable", Top, FALSE, "bigraph")
                  /\ UNCHANGED <<solution_count, emitted>>
             ELSE IF ~lackey_ok
             THEN /\ ReturnWith(IF params.propagate_using_lackey = "RootAndBackjump"
                                THEN "UnsatisfiableAndBackjumpUsingLackey"
                                ELSE "Unsatisfiable", Top, FALSE, "lackey")
                  /\ UNCHANGED <<watches, solution_count, emitted>>
             ELSE IF params.count_solutions
             THEN /\ solution_count' = solution_count + 1
                  /\ watches' = IF params.bigraph
                                THEN post_solution_nogood(watches, assignments)
                                ELSE watches
                  /\ emitted' = IF params.enumerate_callback
                                THEN Append(emitted, mapping) ELSE emitted
                  /\ ReturnWith("SatisfiableButKeepGoing", Top, FALSE, "accepted")
             ELSE /\ ReturnWith("Satisfiable", Top, FALSE, "accepted")
                  /\ UNCHANGED <<watches, solution_count, emitted>>
    /\ UNCHANGED <<model, params, assignments, propagations, expired, backtracks,
                   restarts, root_domains,
                   propagated>>

\* lines 76-157: a branch domain is found and its values are ordered
EnterBranch ==
    /\ pc = "call" /\ ~expired
    /\ find_branch_domain(Top.domains) # 0
    /\ nodes' = nodes + 1
    /\ \E branch_v \in value_orderings(
                values_in_order(Top.domains[find_branch_domain(Top.domains)].values)) :
          stack' = [stack EXCEPT ![Len(stack)] =
                       [@ EXCEPT !.branch_domain = find_branch_domain(Top.domains),
                                 !.branch_v = branch_v]]
    /\ pc' = "loop"
    /\ UNCHANGED <<model, params, assignments, watches, propagations, solution_count,
                   result, expired, backtracks, restarts, emitted, root_domains, returned,
                   propagated>>

\* lines 160-191: the next value is tried: decision, domain copy, propagate, and
\* then either the failure branch or the recursive call
TryCandidate ==
    /\ pc = "loop"
    /\ Top.f_v <= Len(Top.branch_v)
    /\ LET f == Top
           v == f.domains[f.branch_domain].v
           t == f.branch_v[f.f_v]
           assignments_size == Len(assignments)
           pushed == Append(assignments,
                        TrailEntry(v, t, TRUE, f.discrepancy_count, Len(f.branch_v)))
           new_domains == copy_nonfixed_domains_and_make_assignment(f.domains, v, t)
           use_lackey == f.use_lackey_for_propagation
                            \/ params.propagate_using_lackey = "Always"
       IN \E reply \in (IF ~lackey_consulted(use_lackey)
                        THEN {[ok |-> TRUE, deletions |-> <<>>]}
                        ELSE IF use_lackey THEN LackeyReplies
                        \* no deletion callback is handed over
                        ELSE {r \in LackeyReplies : r.deletions = <<>>}) :
             \E r \in {propagate(new_domains, pushed, watches, use_lackey, reply)} :
                /\ watches' = r.watches
                /\ propagated' = [ok |-> r.ok, fired |-> r.fired, dcount |-> r.dcount,
                                   total |-> propagated.total + r.fired,
                                   size |-> assignments_size,
                                   use_lackey |-> use_lackey, reply |-> reply]
                /\ IF ~r.ok
                   THEN /\ assignments' = resize(pushed, assignments_size)
                        /\ stack' = [stack EXCEPT ![Len(stack)] =
                                        [@ EXCEPT !.assignments_size = assignments_size,
                                                  !.actually_hit_a_failure = TRUE,
                                                  !.f_v = @ + 1]]
                        /\ pc' = "loop"
                   ELSE /\ assignments' = r.assignments
                        /\ stack' = Append(
                              [stack EXCEPT ![Len(stack)].assignments_size = assignments_size],
                              Frame(r.domains, f.depth + 1, Len(r.assignments)))
                        /\ pc' = "call"
    /\ propagations' = propagations + 1
    /\ UNCHANGED <<model, params, nodes, solution_count, result, expired, backtracks,
                   restarts, emitted, root_domains, returned>>

\* a fault: every result of the recursive call goes on to the next value
HandleReturn_Continue ==
    /\ pc = "return"
    /\ assignments' = resize(assignments, Top.assignments_size)
    /\ stack' = [stack EXCEPT ![Len(stack)].f_v = @ + 1]
    /\ pc' = "loop"
    /\ UNCHANGED <<model, params, watches, nodes, propagations, solution_count, result,
                   expired, backtracks, restarts, emitted, root_domains, returned,
                   propagated>>

\* a fault: UnsatisfiableAndBackjumpUsingLackey is taken as Unsatisfiable
HandleReturn_NoBackjump ==
    /\ pc = "return"
    /\ LET f == Top
           restored == resize(assignments, f.assignments_size)
           next_value(hit, lackey) ==
               /\ assignments' = restored
               /\ stack' = [stack EXCEPT ![Len(stack)] =
                      [@ EXCEPT !.actually_hit_a_failure = @ \/ hit,
                                !.use_lackey_for_propagation = @ \/ lackey,
                                !.discrepancy_count = @ + 1,
                                !.f_v = @ + 1]]
               /\ pc' = "loop"
               /\ UNCHANGED <<watches, result, returned>>
       IN CASE result \in {"Satisfiable", "Aborted"} ->
                 /\ Return(result, f)
                 /\ UNCHANGED <<assignments, watches>>
            [] result = "Restart" ->
                 /\ assignments' = restored
                 /\ watches' = post_retry_nogoods(watches, restored,
                                   f.domains[f.branch_domain].v, f.branch_v, 1, f.f_v)
                 /\ Return("Restart", f)
            [] result = "SatisfiableButKeepGoing" -> next_value(FALSE, FALSE)
            [] result = "UnsatisfiableAndBackjumpUsingLackey" -> next_value(TRUE, FALSE)
            [] result = "Unsatisfiable" -> next_value(TRUE, FALSE)
    /\ UNCHANGED <<model, params, nodes, propagations, solution_count, expired,
                   backtracks, restarts, emitted, root_domains,
                   propagated>>

\* lines 193-242: the switch on the result of the recursive call
HandleReturn ==
    /\ pc = "return"
    /\ LET f == Top
           restored == resize(assignments, f.assignments_size)
           next_value(hit, lackey) ==
               /\ assignments' = restored
               /\ stack' = [stack EXCEPT ![Len(stack)] =
                      [@ EXCEPT !.actually_hit_a_failure = @ \/ hit,
                                !.use_lackey_for_propagation = @ \/ lackey,
                                !.discrepancy_count = @ + 1,
                                !.f_v = @ + 1]]
               /\ pc' = "loop"
               /\ UNCHANGED <<watches, result, returned>>
       IN CASE result \in {"Satisfiable", "Aborted"} ->
                 /\ Return(result, f)
                 /\ UNCHANGED <<assignments, watches>>
            [] result = "Restart" ->
                 /\ assignments' = restored
                 /\ watches' = post_retry_nogoods(watches, restored,
                                   f.domains[f.branch_domain].v, f.branch_v, 1, f.f_v)
                 /\ Return("Restart", f)
            [] result = "SatisfiableButKeepGoing" -> next_value(FALSE, FALSE)
            [] result = "UnsatisfiableAndBackjumpUsingLackey" -> next_value(TRUE, TRUE)
            [] result = "Unsatisfiable" -> next_value(TRUE, FALSE)
    /\ UNCHANGED <<model, params, nodes, propagations, solution_count, expired,
                   backtracks, restarts, emitted, root_domains,
                   propagated>>

\* a fault: the schedule is told of a backtrack whether or not a value failed
Exhausted_Always ==
    /\ pc = "loop"
    /\ Top.f_v > Len(Top.branch_v)
    /\ backtracks' = backtracks + 1
    /\ \E should_restart \in (IF params.restarts THEN BOOLEAN ELSE {FALSE}) :
          IF should_restart
          THEN /\ watches' = post_nogood(watches, assignments)
               /\ ReturnAfter("Restart", Top, TRUE)
          ELSE /\ watches' = watches
               /\ ReturnAfter(IF Top.use_lackey_for_propagation
                              THEN "UnsatisfiableAndBackjumpUsingLackey"
                              ELSE "Unsatisfiable", Top, FALSE)
    /\ UNCHANGED <<model, params, assignments, nodes, propagations, solution_count,
                   expired, restarts, emitted, root_domains,
                   propagated>>

\* lines 245-259: no values remain
Exhausted ==
    /\ pc = "loop"
    /\ Top.f_v > Len(Top.branch_v)
    /\ backtracks' = IF Top.actually_hit_a_failure THEN backtracks + 1 ELSE backtracks
    /\ \E should_restart \in (IF params.restarts THEN BOOLEAN ELSE {FALSE}) :
          IF should_restart
          THEN /\ watches' = post_nogood(watches, assignments)
               /\ ReturnAfter("Restart", Top, TRUE)
          ELSE /\ watches' = watches
               /\ ReturnAfter(IF Top.use_lackey_for_propagation
                              THEN "UnsatisfiableAndBackjumpUsingLackey"
                              ELSE "Unsatisfiable", Top, FALSE)
    /\ UNCHANGED <<model, params, assignments, nodes, propagations, solution_count,
                   expired, restarts, emitted, root_domains,
                   propagated>>

\* the top-level caller enters again after Restart, with the nogoods posted so far
Reenter ==
    /\ pc = "done" /\ result = "Restart"
    /\ restarts < MaxRestarts
    /\ restarts' = restarts + 1
    /\ assignments' = <<>>
    /\ stack' = <<Frame(root_domains, 0, 0)>>
    /\ pc' = "call"
    /\ result' = "None"
    /\ UNCHANGED <<model, params, watches, nodes, propagations, solution_count, expired,
                   backtracks, emitted, root_domains, returned,
                   propagated>>

Next ==
    \/ Expire
    \/ EnterAbort
    \/ EnterSolution
    \/ EnterBranch
    \/ TryCandidate
    \/ HandleReturn
    \/ Exhausted
    \/ Reenter

----------------------------------------------------------------------------
(* The instances searched *)

FullDomains(np, nt) ==
    [i \in 1..np |-> [v |-> i - 1, values |-> 0..(nt - 1), count |-> nt, fixed |-> FALSE]]

DomainsOf(ds) ==
    [i \in 1..Len(ds) |->
        [v |-> i - 1, values |-> ds[i], count |-> Cardinality(ds[i]), fixed |-> FALSE]]

Pairs(n) == (0..(n - 1)) \X (0..(n - 1))

PlainModel(np, nt, pe, te, directed, less) ==
    [pattern_size |-> np, target_size |-> nt, max_graphs |-> 1,
     pattern_edges |-> [g \in {0} |-> pe], target_edges |-> [g \in {0} |-> te],
     directed |-> directed, has_edge_labels |-> FALSE,
     pattern_labels |-> [e \in Pairs(np) |-> 0], target_labels |-> [e \in Pairs(nt) |-> 0],
     has_less_thans |-> less # <<>>, pattern_less_thans_in_convenient_order |-> less,
     pattern_link_count |-> 0]

PlainParams(inj, induced, count, order) ==
    [injectivity |-> inj, induced |-> induced, bigraph |-> FALSE,
     count_solutions |-> count, value_ordering_heuristic |-> order,
     propagate_using_lackey |-> "Never", send_partials_to_lackey |-> FALSE,
     enumerate_callback |-> count, lackey |-> FALSE, timeout |-> FALSE,
     might_have_watches |-> FALSE, restarts |-> FALSE]

Instance(m, p, d) == [model |-> m, params |-> p, domains |-> d]

UndirectedGraphs(n) ==
    {Sym(E) : E \in SUBSET {e \in Pairs(n) : e[1] < e[2]}}

K3 == Sym({<<0, 1>>, <<0, 2>>, <<1, 2>>})
Path3 == Sym({<<0, 1>>, <<1, 2>>})
Star4 == Sym({<<0, 1>>, <<0, 2>>, <<0, 3>>})

\* the graph of the pairs of distinct vertices of E that have a common neighbour
CommonNeighbour(n, E) ==
    {e \in Pairs(n) : e[1] # e[2] /\ \E w \in 0..(n - 1) : <<e[1], w>> \in E /\ <<e[2], w>> \in E}

Injectivities == {"Injective", "LocallyInjective", "NonInjective"}

\* undirected graphs, every mode, the search running undisturbed to its end
PlainInstances ==
    {Instance(PlainModel(3, MaxTarget, pe, te, FALSE, <<>>),
              PlainParams(inj, induced, count, "AntiDegree"),
              FullDomains(3, MaxTarget)) :
        pe \in UndirectedGraphs(3), te \in UndirectedGraphs(MaxTarget),
        inj \in Injectivities, induced \in BOOLEAN, count \in BOOLEAN}

\* directed graphs, with and without less-thans
DirectedInstances ==
    {Instance(PlainModel(3, 3, pe, te, TRUE, less),
              PlainParams(inj, induced, count, "AntiDegree"),
              FullDomains(3, 3)) :
        pe \in SUBSET {<<0, 1>>, <<1, 2>>, <<1, 0>>},
        te \in SUBSET {<<0, 1>>, <<1, 2>>, <<0, 2>>, <<1, 0>>},
        less \in {<<>>, << <<0, 1>> >>, << <<0, 1>>, <<1, 2>> >>},
        inj \in {"Injective", "NonInjective"}, induced \in BOOLEAN, count \in BOOLEAN}

\* edge labels: the pattern path 0 -> 1 -> 2 into a labelled target
LabelledTargetEdges == {<<0, 1>>, <<1, 2>>, <<0, 2>>, <<2, 0>>}

LabelInstances ==
    {Instance([PlainModel(3, 3, {<<0, 1>>, <<1, 2>>}, LabelledTargetEdges, TRUE, <<>>)
                  EXCEPT !.has_edge_labels = TRUE,
                         !.pattern_labels = [e \in Pairs(3) |->
                              IF e = <<0, 1>> THEN 1 ELSE IF e = <<1, 2>> THEN pl ELSE 0],
                         !.target_labels = [e \in Pairs(3) |->
                              IF e \in LabelledTargetEdges THEN tl[e] ELSE 0]],
              PlainParams(inj, induced, count, "AntiDegree"),
              FullDomains(3, 3)) :
        pl \in {1, 2}, tl \in [LabelledTargetEdges -> {1, 2}],
        inj \in {"Injective", "NonInjective"}, induced \in BOOLEAN, count \in BOOLEAN}

\* a supplemental graph pair: vertices with a common neighbour
SupplementalInstances ==
    {Instance([PlainModel(3, 3, pe, te, FALSE, <<>>)
                  EXCEPT !.max_graphs = 2,
                         !.pattern_edges = (0 :> pe) @@ (1 :> CommonNeighbour(3, pe)),
                         !.target_edges = (0 :> te) @@ (1 :> CommonNeighbour(3, te))],
              PlainParams("Injective", induced, count, "AntiDegree"),
              FullDomains(3, 3)) :
        pe \in UndirectedGraphs(3), te \in UndirectedGraphs(3), induced \in BOOLEAN,
        count \in BOOLEAN}

\* the orderings that leave a choice
OrderingInstances ==
    {Instance(PlainModel(3, 3, pe, Path3, FALSE, <<>>),
              PlainParams(inj, FALSE, count, order),
              FullDomains(3, 3)) :
        pe \in {K3, Path3}, inj \in {"Injective", "NonInjective"}, count \in BOOLEAN,
        order \in {"Degree", "Random", "Biased"}}
    \cup
    {Instance(PlainModel(3, 3, K3, K3, FALSE, <<>>),
              PlainParams("Injective", FALSE, count, "Degree"),
              FullDomains(3, 3)) : count \in BOOLEAN}

\* a pattern of four vertices into a star: the frame of the third decision runs
\* out of values, and the search succeeds elsewhere
DeepModel == PlainModel(4, 4, Sym({<<0, 3>>, <<2, 3>>}), Star4, FALSE, <<>>)
DeepDomains == DomainsOf(<<{0, 1}, {0, 1}, {1, 2, 3}, {0, 1, 2, 3}>>)

Restarting(p, w, t) == [p EXCEPT !.restarts = TRUE, !.might_have_watches = w, !.timeout = t]

\* the restart schedule may signal a restart, the timeout may run out
RestartInstances ==
    {Instance(PlainModel(3, 3, pe, te, FALSE, <<>>),
              Restarting(PlainParams(inj, induced, FALSE, "AntiDegree"), TRUE, TRUE),
              FullDomains(3, 3)) :
        pe \in UndirectedGraphs(3), te \in UndirectedGraphs(3), inj \in Injectivities,
        induced \in BOOLEAN}
    \cup
    {Instance(m.model, Restarting(PlainParams(inj, FALSE, TRUE, "AntiDegree"), w, t),
              m.domains) :
        m \in {[model |-> PlainModel(3, 3, Path3, Path3, FALSE, <<>>),
                domains |-> FullDomains(3, 3)],
               [model |-> PlainModel(3, 3, {}, Path3, FALSE, <<>>),
                domains |-> DomainsOf(<<{0, 1}, {0, 1}, {0, 1}>>)]},
        inj \in {"Injective", "NonInjective"}, w \in BOOLEAN, t \in BOOLEAN}
    \cup
    {Instance(DeepModel, Restarting(PlainParams("NonInjective", FALSE, FALSE, "Degree"), w, t),
              DeepDomains) : w \in BOOLEAN, t \in BOOLEAN}

\* a lackey that may veto and delete
LackeyInstances ==
    {Instance(PlainModel(2, 3, Sym({<<0, 1>>}), Path3, FALSE, <<>>),
              [PlainParams("Injective", FALSE, count, "AntiDegree")
                  EXCEPT !.lackey = TRUE, !.propagate_using_lackey = mode,
                         !.send_partials_to_lackey = partials],
              FullDomains(2, 3)) :
        mode \in {"Never", "Always", "RootAndBackjump"}, partials \in BOOLEAN,
        count \in BOOLEAN}

\* bigraph mode: the last pattern vertex is a link
BigraphInstances ==
    {Instance([PlainModel(2, 3, Sym({<<0, 1>>}), Path3, FALSE, <<>>)
                  EXCEPT !.pattern_link_count = 1],
              [PlainParams("Injective", FALSE, count, "AntiDegree")
                  EXCEPT !.bigraph = TRUE, !.might_have_watches = TRUE, !.restarts = r],
              FullDomains(2, 3)) :
        count \in BOOLEAN, r \in BOOLEAN}

\* a pattern vertex whose initial domain is empty
EmptyDomainInstances ==
    {Instance(PlainModel(3, 3, Path3, Path3, FALSE, <<>>),
              [PlainParams(inj, FALSE, count, "AntiDegree")
                  EXCEPT !.restarts = r, !.might_have_watches = r, !.timeout = r],
              DomainsOf(ds)) :
        inj \in {"Injective", "NonInjective"}, count \in BOOLEAN, r \in BOOLEAN,
        ds \in {<<{0, 1}, {}, {0, 1, 2}>>, <<{}, {}, {1}>>}}

\* count mode with no enumerate_callback given
NoCallbackInstances ==
    {Instance(PlainModel(3, 3, pe, Path3, FALSE, <<>>),
              [PlainParams(inj, FALSE, TRUE, "AntiDegree") EXCEPT !.enumerate_callback = FALSE],
              FullDomains(3, 3)) :
        pe \in {Path3, {}}, inj \in {"Injective", "NonInjective"}}

Instances ==
    EmptyDomainInstances \cup NoCallbackInstances \cup PlainInstances \cup DirectedInstances \cup LabelInstances \cup SupplementalInstances
       \cup OrderingInstances \cup RestartInstances \cup LackeyInstances
       \cup BigraphInstances

Init ==
    /\ \E i \in Instances :
          /\ model = i.model
          /\ params = i.params
          /\ root_domains = i.domains
    /\ assignments = <<>>
    /\ stack = <<Frame(root_domains, 0, 0)>>
    /\ watches = <<>>
    /\ nodes = 0
    /\ propagations = 0
    /\ solution_count = 0
    /\ pc = "call"
    /\ result = "None"
    /\ expired = FALSE
    /\ backtracks = 0
    /\ restarts = 0
    /\ emitted = <<>>
    /\ returned = [entry_size |-> 0, depth |-> 0, should_restart |-> FALSE,
                   retried |-> 0, discrepancy_count |-> 0, verdict |-> "none"]
    /\ propagated = [ok |-> TRUE, fired |-> 0, dcount |-> 0, size |-> 0, total |-> 0,
                     use_lackey |-> FALSE, reply |-> [ok |-> TRUE, deletions |-> <<>>]]

Spec == Init /\ [][Next]_vars

\* a step of Next can be taken: an invocation is running, or the caller may
\* enter again
CanStep == pc # "done" \/ (result = "Restart" /\ restarts < MaxRestarts)

\* the search thread keeps running: whilst a step can be taken, one is taken
\* (every step of the specification that changes vars is a step of Next, so
\* this is WF_vars(Next))
FairSpec ==
    Spec /\ ([]<>(~CanStep) \/ []<><<TRUE>>_vars)

----------------------------------------------------------------------------
(* What the claims speak of *)

\* a mapping of every pattern vertex that satisfies the constraints of the model:
\* adjacency on graph pair 0 (ordered pairs, so both directions), non-adjacency
\* under induced, the injectivity mode, the edge labels and the less-thans
SatisfiesModel(f) ==
    /\ DOMAIN f = PatternVertices
    /\ \A p \in PatternVertices : f[p] \in TargetVertices
    /\ \A e \in model.pattern_edges[0] : <<f[e[1]], f[e[2]]>> \in model.target_edges[0]
    /\ params.induced =>
          \A u, v \in PatternVertices :
             (u # v /\ <<u, v>> \notin model.pattern_edges[0])
                => <<f[u], f[v]>> \notin model.target_edges[0]
    /\ params.injectivity = "Injective" =>
          \A u, v \in PatternVertices : u # v => f[u] # f[v]
    /\ params.injectivity = "LocallyInjective" =>
          \A u, v \in PatternVertices :
             (u # v /\ \E w \in PatternVertices :
                          /\ <<u, w>> \in model.pattern_edges[0]
                          /\ <<v, w>> \in model.pattern_edges[0])
                => f[u] # f[v]
    /\ model.has_edge_labels =>
          \A e \in model.pattern_edges[0] :
             model.target_labels[<<f[e[1]], f[e[2]]>>] = model.pattern_labels[e]
    /\ \A k \in 1..Len(model.pattern_less_thans_in_convenient_order) :
          f[model.pattern_less_thans_in_convenient_order[k][1]]
             < f[model.pattern_less_thans_in_convenient_order[k][2]]

WithinRootDomains(f) ==
    \A i \in 1..Len(root_domains) : f[root_domains[i].v] \in root_domains[i].values

\* the satisfying mappings within the domains the search was started with
Solutions ==
    {f \in [PatternVertices -> TargetVertices] : WithinRootDomains(f) /\ SatisfiesModel(f)}

NoLackeyNoBigraph == ~params.lackey /\ ~params.bigraph

\* C1: with no lackey and no bigraph mode, the mapping on the trail when an
\* invocation has returned Satisfiable, and every mapping passed to
\* enumerate_callback, assigns every pattern vertex and satisfies the model
C1_Soundness ==
    NoLackeyNoBigraph =>
       /\ (pc \in {"return", "done"} /\ result = "Satisfiable")
             => SatisfiesModel(expand_to_full_result(assignments))
       /\ \A k \in 1..Len(emitted) : SatisfiesModel(emitted[k])

C1_Witness ==
    /\ NoLackeyNoBigraph
    /\ pc = "done" /\ result = "Satisfiable"
    /\ params.induced /\ model.pattern_edges[0] # {}
    /\ Cardinality(Solutions) < Cardinality([PatternVertices -> TargetVertices])

\* C2: in non-count mode with no lackey, no bigraph mode and a timeout that never
\* signals, when some mapping within the initial domains satisfies the model the
\* top-level call returns Satisfiable or Restart, never Unsatisfiable, and it
\* returns Satisfiable when restarts are off; also on re-entry after a restart
C2_Completeness ==
    (/\ pc = "done" /\ ~params.count_solutions /\ NoLackeyNoBigraph
     /\ ~expired /\ Solutions # {})
       => /\ result \in {"Satisfiable", "Restart"}
          /\ ~params.restarts => result = "Satisfiable"

\* a solution is found on re-entry, after a posted nogood has fired
C2_Witness ==
    /\ pc = "done" /\ ~params.count_solutions /\ NoLackeyNoBigraph /\ ~expired
    /\ result = "Satisfiable" /\ restarts >= 1 /\ propagated.total > 0

\* C3: in count mode with Degree or AntiDegree ordering, no lackey, no bigraph
\* mode, no abort and no restart, the top-level call returns with solution_count
\* equal to the number of satisfying mappings, each counted once
C3_CountStability ==
    (/\ pc = "done" /\ params.count_solutions /\ NoLackeyNoBigraph
     /\ params.value_ordering_heuristic \in {"Degree", "AntiDegree"}
     /\ restarts = 0 /\ result \notin {"Aborted", "Restart"})
       => /\ solution_count = Cardinality(Solutions)
          /\ params.enumerate_callback =>
                /\ Range(emitted) = Solutions
                /\ Len(emitted) = Cardinality(Solutions)

C3_Witness ==
    /\ pc = "done" /\ params.count_solutions /\ NoLackeyNoBigraph
    /\ restarts = 0 /\ result \notin {"Aborted", "Restart"}
    /\ solution_count = 6 /\ params.injectivity = "Injective" /\ ~params.induced
    /\ model.pattern_edges[0] = Sym({<<0, 1>>, <<0, 2>>, <<1, 2>>})

\* C4 as stated: whenever an invocation returns a result other than Satisfiable,
\* the trail is as long as it was when the invocation was entered
C4_AsStated ==
    (pc \in {"return", "done"} /\ result # "Satisfiable")
       => Len(assignments) = returned.entry_size

\* C4: whenever an invocation returns a result other than Satisfiable or Aborted,
\* the trail is as long as it was when the invocation was entered
C4_TrailRestoration ==
    (pc \in {"return", "done"} /\ result \notin {"Satisfiable", "Aborted"})
       => Len(assignments) = returned.entry_size

\* an inner invocation, entered with a trail that is not empty, hands Restart
\* up from its recursive call
C4_Witness ==
    /\ pc = "return" /\ result = "Restart"
    /\ returned.depth >= 1 /\ returned.entry_size > 0
    /\ Len(assignments) = returned.entry_size
    /\ Len(watches) >= 2

\* C5 as stated: no two entries of the trail have the same pattern_vertex
C5_AsStated ==
    \A i, j \in 1..Len(assignments) :
       i # j => assignments[i].assignment.pattern_vertex
                   # assignments[j].assignment.pattern_vertex

\* C5: two entries of the trail with the same pattern_vertex have the same
\* target_vertex, the earlier being the decision and the later its unit
\* propagation; so a pattern vertex has at most one entry of each kind
C5_TrailDistinctness ==
    \A i, j \in 1..Len(assignments) :
       (i < j /\ assignments[i].assignment.pattern_vertex
                    = assignments[j].assignment.pattern_vertex)
          => /\ assignments[i].assignment.target_vertex
                   = assignments[j].assignment.target_vertex
             /\ assignments[i].is_decision
             /\ ~assignments[j].is_decision

\* the decision and its unit propagation are both on the trail, with entries
\* of another pattern vertex
C5_Witness ==
    /\ \E i, j \in 1..Len(assignments) :
          /\ i < j
          /\ assignments[i].assignment = assignments[j].assignment
    /\ \E i, j \in 1..Len(assignments) :
          assignments[i].assignment.pattern_vertex
             # assignments[j].assignment.pattern_vertex

\* the trail is the one a successful propagate has just left
AtFixpoint == pc = "call" /\ Len(stack) >= 2

\* C6 as stated: under Injective, at every successful return of propagate no two
\* entries of the trail have the same target_vertex
C6_AsStated ==
    (params.injectivity = "Injective" /\ AtFixpoint)
       => \A i, j \in 1..Len(assignments) :
             i # j => assignments[i].assignment.target_vertex
                         # assignments[j].assignment.target_vertex

\* C6: under Injective, at every successful return of propagate no two entries of
\* the trail with different pattern vertices have the same target_vertex
C6_InjectiveTrail ==
    (params.injectivity = "Injective" /\ AtFixpoint)
       => \A i, j \in 1..Len(assignments) :
             assignments[i].assignment.pattern_vertex
                # assignments[j].assignment.pattern_vertex
                => assignments[i].assignment.target_vertex
                      # assignments[j].assignment.target_vertex

\* every pattern vertex is on the trail
C6_Witness ==
    /\ params.injectivity = "Injective" /\ AtFixpoint
    /\ {assignments[i].assignment.pattern_vertex : i \in 1..Len(assignments)}
          = PatternVertices
    /\ model.pattern_size >= 3

\* the mapping f holds every literal of the nogood
ContainsNogood(f, nogood) ==
    \A k \in 1..Len(nogood) : f[nogood[k].pattern_vertex] = nogood[k].target_vertex

C8_ControlSignals ==
    [][(pc = "return" /\ expired' = expired) =>
          /\ result \in {"Satisfiable", "Aborted", "Restart"} =>
                /\ result' = result
                /\ stack' = SubSeq(stack, 1, Len(stack) - 1)
                /\ pc' = (IF Len(stack) = 1 THEN "done" ELSE "return")
                /\ Len(assignments') <= Len(assignments)
                /\ UNCHANGED <<nodes, propagations, solution_count, emitted>>
          /\ result \in {"SatisfiableButKeepGoing", "Unsatisfiable",
                          "UnsatisfiableAndBackjumpUsingLackey"} =>
                /\ pc' = "loop"
                /\ Len(stack') = Len(stack)
                /\ stack'[Len(stack)].f_v = Top.f_v + 1
                /\ stack'[Len(stack)].branch_v = Top.branch_v
      ]_vars

\* the top-level call has returned the Satisfiable of a leaf, after a frame
\* that ran out of values made its caller go on to the next value
C8_Witness ==
    /\ pc = "done" /\ result = "Satisfiable" /\ returned.depth = 0
    /\ backtracks > 0 /\ restarts = 0

\* C9: an invocation entered when should_abort() is true returns Aborted and
\* changes no counter, trail or nogood; once a result is Aborted every frame
\* returns Aborted, and nothing is counted, emitted or posted
C9_Cancellation ==
    [][/\ (pc = "call" /\ expired) =>
             /\ result' = "Aborted"
             /\ stack' = SubSeq(stack, 1, Len(stack) - 1)
             /\ pc' = (IF Len(stack) = 1 THEN "done" ELSE "return")
             /\ UNCHANGED <<nodes, assignments, propagations, watches,
                            solution_count, emitted>>
       /\ result = "Aborted" =>
             /\ result' = "Aborted"
             /\ Len(stack') < Len(stack)
             /\ UNCHANGED <<nodes, propagations, watches, solution_count, emitted>>
      ]_vars

\* the top-level call has returned Aborted through frames that left their
\* entries on the trail, after a solution was counted
C9_Witness ==
    /\ pc = "done" /\ result = "Aborted" /\ expired
    /\ solution_count >= 1 /\ Len(assignments) >= 2

\* count is the number of values, and a fixed domain has one
DomainConsistent(ds) ==
    \A i \in 1..Len(ds) :
       /\ ds[i].count = Cardinality(ds[i].values)
       /\ ds[i].fixed => ds[i].count = 1

\* C10: the domains a successful propagate leaves, which are the domains of
\* every frame but the first, have count equal to the number of values, and 1
\* where fixed
C10_DomainConsistency ==
    \A k \in 2..Len(stack) : DomainConsistent(stack[k].domains)

\* the propagate that has just succeeded had a value cleared by the on-unit
\* callback of the watches
C10_Witness ==
    /\ AtFixpoint /\ propagated.ok /\ propagated.fired > 0
    /\ \E i \in 1..Len(Top.domains) : ~Top.domains[i].fixed

\* the propagate that has just succeeded had a value deleted by the lackey
C10_LackeyDeleted ==
    /\ AtFixpoint /\ propagated.ok /\ propagated.dcount > 0

\* propagate called again on what the last successful call left: the same
\* propagate_using_lackey, the lackey answering as it did
propagate_again ==
    propagate(Top.domains, assignments, watches, propagated.use_lackey, propagated.reply)

\* the second call returns true and leaves the domains and the trail as they are
Idempotent(again) ==
    /\ again.ok
    /\ again.domains = Top.domains
    /\ again.assignments = assignments

\* C11 as stated: propagate called again after it returned true returns true and
\* leaves domains and trail identical, in every configuration
C11_AsStated ==
    AtFixpoint => Idempotent(propagate_again)

\* without a lackey a second call of propagate changes nothing
C11_WithoutLackey ==
    (AtFixpoint /\ ~params.lackey) => Idempotent(propagate_again)

\* a second call after the on-unit callback of the watches cleared a value
C11_WithoutLackeyReached ==
    /\ AtFixpoint /\ ~params.lackey /\ propagated.fired > 0

NonFixed(ds) == Cardinality({i \in 1..Len(ds) : ~ds[i].fixed})

SearchResults ==
    {"Aborted", "Unsatisfiable", "UnsatisfiableAndBackjumpUsingLackey",
     "Satisfiable", "SatisfiableButKeepGoing", "Restart"}

\* every frame has fewer non-fixed domains than its caller and is no deeper
\* than the number of pattern vertices; a successful propagate pushed one trail
\* entry for each domain it fixed; a top-level result is a SearchResult
BoundedRecursion ==
    /\ \A k \in 2..Len(stack) :
          NonFixed(stack[k].domains) < NonFixed(stack[k - 1].domains)
    /\ \A k \in 1..Len(stack) :
          stack[k].depth = k - 1 /\ stack[k].depth <= model.pattern_size
    /\ AtFixpoint =>
          Len(assignments) - (propagated.size + 1)
             = Cardinality({i \in 1..Len(Top.domains) : Top.domains[i].fixed})
    /\ pc = "done" => result \in SearchResults

\* C12: every recursive call receives strictly fewer non-fixed domains than its
\* caller, the depth never exceeds the number of pattern vertices, propagate
\* fixes one domain per iteration, and every top-level invocation that is
\* entered returns one of the six SearchResult values
C12_BoundedRecursion ==
    /\ []BoundedRecursion
    /\ (pc = "call" /\ Len(stack) = 1) ~> (pc = "done" /\ result \in SearchResults)

\* a frame as deep as there are pattern vertices
C12_Witness ==
    /\ pc = "call" /\ model.pattern_size >= 3
    /\ Top.depth = model.pattern_size
    /\ NonFixed(Top.domains) = 0

\* the innermost invocation was called with a non-fixed domain of count 0
EmptyDomainFrame ==
    /\ Len(stack) >= 1
    /\ \E i \in 1..Len(Top.domains) : ~Top.domains[i].fixed /\ Top.domains[i].count = 0

\* what such an invocation does in one step when the timeout does not change:
\* no push, no propagate, no recursive call; entered with the timeout not
\* expired it has no candidates, and it then returns one of results
EmptyDomainStep(results) ==
    (EmptyDomainFrame /\ expired' = expired) =>
       /\ UNCHANGED <<assignments, propagations, solution_count>>
       /\ Len(stack') <= Len(stack)
       /\ (pc = "call" /\ ~expired) =>
             /\ pc' = "loop"
             /\ stack'[Len(stack)].branch_v = <<>>
       /\ pc = "loop" =>
             /\ result' \in results
             /\ Len(stack') = Len(stack) - 1

\* C13 as stated: called with a non-fixed domain of count 0 and the timeout not
\* expired, restarting_search returns Unsatisfiable without recursive call, push
\* or propagate, whatever the restart schedule reports
C13_AsStated ==
    [][EmptyDomainStep({"Unsatisfiable"})]_vars

\* C13: called with a non-fixed domain of count 0 and the timeout not expired,
\* restarting_search makes no recursive call, push or propagate; it returns
\* Unsatisfiable, posting nothing, when should_restart() is false, and posts the
\* nogood of the decisions on the trail and returns Restart when it is true
C13_EmptyDomain ==
    [][/\ EmptyDomainStep({"Unsatisfiable", "Restart"})
       /\ (EmptyDomainFrame /\ pc = "loop" /\ expired' = expired) =>
             /\ result' = (IF returned'.should_restart THEN "Restart" ELSE "Unsatisfiable")
             /\ watches' = (IF returned'.should_restart
                            THEN post_nogood(watches, assignments) ELSE watches)
             /\ backtracks' = backtracks
      ]_vars

\* the top-level call, given an empty domain that is not the first of the
\* vector, has returned Restart without a propagate call
C13_Witness ==
    /\ pc = "done" /\ result = "Restart" /\ returned.should_restart
    /\ propagations = 0 /\ nodes = 1 /\ restarts = 0
    /\ root_domains[1].count > 0
    /\ \E i \in 1..Len(root_domains) : root_domains[i].count = 0

\* the decision that frame k of the stack pushed for the value it is trying
DecisionOf(k) == assignments[stack[k].assignments_size + 1]

\* C14 as stated: every decision entry pushed by the branching loop has
\* discrepancy_count equal to the 0-based position of its target vertex in the
\* frame's ordered candidate list and choice_count equal to the number of
\* candidates, also after an earlier candidate of the frame failed propagation
C14_AsStated ==
    \A k \in 1..(Len(stack) - 1) :
       /\ DecisionOf(k).is_decision
       /\ DecisionOf(k).assignment.target_vertex = stack[k].branch_v[stack[k].f_v]
       /\ DecisionOf(k).choice_count = Len(stack[k].branch_v)
       /\ DecisionOf(k).discrepancy_count = stack[k].f_v - 1

\* the innermost frame has received Restart from its recursive call
ReceivedRestart == pc = "return" /\ result = "Restart"

\* the literal of the value at position l of the candidates of the innermost frame
RetryLiteral(l) == Assignment(Top.domains[Top.branch_domain].v, Top.branch_v[l])

\* the nogoods posted by the step are numbered Len(watches) + 1 onwards
PostedByStep == (Len(watches) + 1)..Len(watches')

\* C15 as stated: the nogood a frame posts for a previously tried value l on
\* receiving Restart is the one literal (branch.v, l), with no literal of a
\* decision of an ancestor frame
C15_AsStated ==
    [][ReceivedRestart =>
          \A n \in PostedByStep : watches'[n] = <<RetryLiteral(n - Len(watches))>>]_vars

\* C15: the nogood a frame posts for a previously tried value l on receiving
\* Restart is the literals of the decisions of its ancestor frames, in trail
\* order, followed by the literal (branch.v, l); it is that one literal only
\* when no ancestor decision is on the trail
C15_RetryNogoods ==
    [][ReceivedRestart =>
          \A n \in PostedByStep :
             watches'[n] = [k \in 1..Len(stack) |->
                               IF k < Len(stack) THEN DecisionOf(k).assignment
                               ELSE RetryLiteral(n - Len(watches))]]_vars

\* a frame below the root has posted a retry nogood and returned Restart
C15_Witness ==
    /\ result = "Restart" /\ returned.retried >= 1 /\ returned.depth >= 1
    /\ might_have_watches
    /\ Len(watches) >= 1 /\ Len(watches[Len(watches)]) = returned.depth + 1

\* C16: when the recursive call for the candidate at position i (0-based, f_v - 1
\* here) returns Restart and watches are enabled, the frame cuts the trail back
\* to its pre-branch length and posts exactly i nogoods, the n-th holding the
\* candidate at position n - 1 and no other candidate of the frame, whether or
\* not that candidate failed propagation; no transient entry is left on the
\* trail when Restart is returned (the step is the frame's, not the timeout's)
C16_RetryCoverage ==
    [][(ReceivedRestart /\ might_have_watches /\ expired' = expired) =>
          /\ Len(watches') = Len(watches) + (Top.f_v - 1)
          /\ SubSeq(watches', 1, Len(watches)) = watches
          /\ \A n \in PostedByStep :
                \A l \in 1..Len(Top.branch_v) :
                   (\E k \in 1..Len(watches'[n]) : watches'[n][k] = RetryLiteral(l))
                      <=> l = n - Len(watches)
          /\ assignments' = SubSeq(assignments, 1, Top.assignments_size)
          /\ result' = "Restart"
          /\ stack' = SubSeq(stack, 1, Len(stack) - 1)]_vars

\* a frame has returned Restart after going through earlier values of which one
\* had failed propagation, with watches enabled
C16_Witness ==
    /\ result = "Restart" /\ might_have_watches
    /\ returned.retried >= 2 /\ returned.discrepancy_count < returned.retried
    /\ Len(watches) >= returned.retried
    /\ Len(assignments) = returned.entry_size

\* the innermost frame has gone through all its candidates
CandidatesExhausted == pc = "loop" /\ Top.f_v > Len(Top.branch_v)

\* the positions of the trail that hold a decision
DecisionPositions == {i \in 1..Len(assignments) : assignments[i].is_decision}

\* the position of the j-th decision of the trail
DecisionPosition(j) ==
    CHOOSE i \in DecisionPositions : Cardinality({h \in DecisionPositions : h <= i}) = j

\* C17: a frame that has exhausted its candidates and finds should_restart()
\* true returns Restart; with watches enabled it posts exactly one nogood, whose
\* literals are the assignments of the trail entries with is_decision, in trail
\* order, and with watches disabled the watch store is left as it was
C17_RestartNogood ==
    [][(CandidatesExhausted /\ expired' = expired /\ returned'.should_restart) =>
          /\ result' = "Restart"
          /\ assignments' = assignments
          /\ IF might_have_watches
             THEN /\ Len(watches') = Len(watches) + 1
                  /\ SubSeq(watches', 1, Len(watches)) = watches
                  /\ watches'[Len(watches')] =
                        [j \in 1..Cardinality(DecisionPositions) |->
                            assignments[DecisionPosition(j)].assignment]
             ELSE watches' = watches]_vars

\* a frame at depth 2 has posted the restart nogood of the two decisions above
\* it, which stand on the trail among unit-propagated entries
C17_Witness ==
    /\ result = "Restart" /\ returned.should_restart /\ might_have_watches
    /\ returned.depth >= 2 /\ Len(stack) = returned.depth
    /\ Cardinality(DecisionPositions) = 2 /\ Len(assignments) > 2
    /\ Len(watches) >= 1 /\ Len(watches[Len(watches)]) = 2

\* with watches disabled a frame has returned Restart and posted nothing
C17_WatchesDisabled ==
    /\ result = "Restart" /\ returned.should_restart /\ ~might_have_watches
    /\ Len(assignments) > 0 /\ watches = <<>>

\* the step is one of the innermost frame (and not the timeout running out or
\* the top-level caller entering again) that leaves the frame on the stack
FrameStays == expired' = expired /\ Len(stack') >= Len(stack) /\ pc # "done"

\* the step sees a candidate of the innermost frame fail: propagate returns
\* false, or the recursive call has returned Unsatisfiable or
\* UnsatisfiableAndBackjumpUsingLackey
CandidateFails ==
    \/ pc = "loop" /\ propagations' # propagations /\ ~propagated'.ok
    \/ pc = "return" /\ result \in {"Unsatisfiable", "UnsatisfiableAndBackjumpUsingLackey"}

\* a frame starts with no failure and records one exactly when a candidate fails
FailureRecorded ==
    /\ (pc = "call" /\ Len(stack) >= 1) => ~Top.actually_hit_a_failure
    /\ (FrameStays /\ pc \in {"loop", "return"}) =>
          (stack'[Len(stack)].actually_hit_a_failure
              <=> (Top.actually_hit_a_failure \/ CandidateFails))

\* did_a_backtrack() is called once by the step of a frame that has gone through
\* all its candidates with a failure recorded, and by no other step
NotifiedOnce ==
    backtracks' = (IF CandidatesExhausted /\ expired' = expired /\ Top.actually_hit_a_failure
                   THEN backtracks + 1 ELSE backtracks)

\* C18 as stated: did_a_backtrack() is called exactly once by a frame that
\* exhausted its candidates of which one failed and never otherwise, and a frame
\* returns Restart on exhaustion only if it hit such a failure and the schedule
\* then signals restart
C18_AsStated ==
    [][/\ FailureRecorded
       /\ NotifiedOnce
       /\ (CandidatesExhausted /\ expired' = expired /\ result' = "Restart") =>
             (Top.actually_hit_a_failure /\ returned'.should_restart)]_vars

\* C18: did_a_backtrack() is called exactly once by a frame that exhausted its
\* candidates of which one failed and never otherwise; a frame returns Restart on
\* exhaustion exactly if should_restart() then reports true, whether or not it
\* hit a failure
C18_BacktrackNotification ==
    [][/\ FailureRecorded
       /\ NotifiedOnce
       /\ (CandidatesExhausted /\ expired' = expired) =>
             (result' = "Restart" <=> returned'.should_restart)]_vars

\* a frame whose candidates all failed has notified the schedule, which did not
\* signal, and has returned Unsatisfiable to its caller
C18_Witness ==
    /\ pc = "return" /\ result = "Unsatisfiable" /\ ~returned.should_restart
    /\ params.restarts /\ backtracks = 1 /\ propagated.total = 0 /\ ~propagated.ok

\* a frame whose candidates all ended in SatisfiableButKeepGoing has returned
\* Restart without a backtrack being notified
C18_RestartWithoutFailure ==
    /\ result = "Restart" /\ returned.should_restart /\ returned.retried = 0
    /\ backtracks = 0 /\ solution_count > 0

\* the step is the one of an invocation, entered with the timeout not run out,
\* that finds no non-fixed domain
FindsNoBranchDomain ==
    /\ pc = "call" /\ ~expired /\ expired' = expired
    /\ NonFixed(Top.domains) = 0

\* m gives every pattern vertex the target the trail gives it
FullMapping(m) ==
    /\ DOMAIN m = PatternVertices
    /\ \A p \in PatternVertices : contains(assignments, Assignment(p, m[p]))

\* what such an invocation does in count mode: the mapping is either accepted,
\* counted once and, with a callback, passed to it once, or it is rejected by the
\* bigraph check or the lackey and nothing is counted or passed
CountsSolution ==
    (FindsNoBranchDomain /\ params.count_solutions) =>
       \/ /\ result' = "SatisfiableButKeepGoing"
          /\ solution_count' = solution_count + 1
          /\ IF params.enumerate_callback
             THEN /\ Len(emitted') = Len(emitted) + 1
                  /\ SubSeq(emitted', 1, Len(emitted)) = emitted
                  /\ FullMapping(emitted'[Len(emitted')])
             ELSE emitted' = emitted
       \/ /\ result' \in {"Unsatisfiable", "UnsatisfiableAndBackjumpUsingLackey"}
          /\ params.bigraph \/ params.lackey
          /\ UNCHANGED <<solution_count, emitted>>

\* C19 as stated: in count mode an invocation that finds no non-fixed domain and
\* whose mapping passes the checks counts it once, passes it to the callback once
\* when one is provided and returns SatisfiableButKeepGoing, a rejected mapping
\* changes nothing; the callback invocations always equal the increase of
\* solution_count
C19_AsStated ==
    [][/\ CountsSolution
       /\ Len(emitted') - Len(emitted) = solution_count' - solution_count]_vars

\* C19: as above, and the callback invocations equal the increase of
\* solution_count when a callback is provided; when none is provided
\* solution_count increases with no invocation
C19_SolutionHandling ==
    [][/\ CountsSolution
       /\ Len(emitted') - Len(emitted) =
             (IF params.enumerate_callback THEN solution_count' - solution_count ELSE 0)
       /\ solution_count' # solution_count => (FindsNoBranchDomain /\ params.count_solutions)
      ]_vars

\* with a lackey or in bigraph mode, a second mapping has been accepted, counted
\* and passed to the callback
C19_Witness ==
    /\ pc = "return" /\ result = "SatisfiableButKeepGoing"
    /\ params.lackey \/ params.bigraph
    /\ params.enumerate_callback /\ solution_count = 2 /\ Len(emitted) = 2
    /\ FullMapping(emitted[2])

\* in count mode without a callback a mapping has been counted
C19_NoCallback ==
    /\ params.count_solutions /\ ~params.enumerate_callback
    /\ solution_count > 0 /\ emitted = <<>>

\* the positions of the trail that hold a decision on a vertex that is not a link
NonLinkDecisionPositions ==
    {i \in DecisionPositions :
        assignments[i].assignment.pattern_vertex
           < model.pattern_size - model.pattern_link_count}

\* the position of the j-th of them
NonLinkDecisionPosition(j) ==
    CHOOSE i \in NonLinkDecisionPositions :
       Cardinality({h \in NonLinkDecisionPositions : h <= i}) = j

\* the invocation's full mapping calls for a solution nogood: in bigraph mode,
\* when the bigraph check rejected it or when it was accepted in count mode
CallsForSolutionNogood(verdict) ==
    /\ params.bigraph
    /\ \/ verdict = "bigraph"
       \/ verdict = "accepted" /\ params.count_solutions

\* C20: a solution nogood is posted only in bigraph mode, once for a full
\* mapping rejected by check_extra_bigraph_constraints and once for one accepted
\* in count mode, never for one rejected by the lackey or accepted in non-count
\* mode; its literals are the decision entries of the trail on pattern vertices
\* below pattern_size - pattern_link_count
C20_SolutionNogoods ==
    [][/\ FindsNoBranchDomain =>
             /\ returned'.verdict \in {"bigraph", "lackey", "accepted"}
             /\ returned'.verdict = "bigraph" => params.bigraph
             /\ returned'.verdict = "lackey" => params.lackey
             /\ IF CallsForSolutionNogood(returned'.verdict)
                THEN /\ Len(watches') = Len(watches) + 1
                     /\ SubSeq(watches', 1, Len(watches)) = watches
                     /\ watches'[Len(watches')] =
                           [j \in 1..Cardinality(NonLinkDecisionPositions) |->
                               assignments[NonLinkDecisionPosition(j)].assignment]
                ELSE watches' = watches
       /\ (pc = "call" /\ ~FindsNoBranchDomain) => watches' = watches]_vars

\* in bigraph mode a full mapping has been rejected by the bigraph check and its
\* solution nogood leaves out the decision made on the link vertex
C20_Witness ==
    /\ pc = "return" /\ returned.verdict = "bigraph" /\ result = "Unsatisfiable"
    /\ Cardinality(DecisionPositions) = 2
    /\ Cardinality(NonLinkDecisionPositions) = 1
    /\ Len(watches) >= 1 /\ Len(watches[Len(watches)]) = 1

\* in bigraph count mode a full mapping has been accepted and its nogood posted
C20_Accepted ==
    /\ pc = "return" /\ returned.verdict = "accepted" /\ params.bigraph
    /\ result = "SatisfiableButKeepGoing" /\ Len(watches) >= 1

\* a full mapping has been rejected by the lackey and nothing was posted
C20_LackeyRejected ==
    /\ pc = "return" /\ returned.verdict = "lackey" /\ watches = <<>>

\* a frame starts with use_lackey_for_propagation false and sets it exactly when
\* a recursive call of one of its candidates has returned
\* UnsatisfiableAndBackjumpUsingLackey; it is never cleared
BackjumpRecorded ==
    /\ (pc = "call" /\ Len(stack) >= 1) => ~Top.use_lackey_for_propagation
    /\ (FrameStays /\ pc \in {"loop", "return"}) =>
          (stack'[Len(stack)].use_lackey_for_propagation
              <=> (Top.use_lackey_for_propagation
                   \/ (pc = "return" /\ result = "UnsatisfiableAndBackjumpUsingLackey")))

\* the step calls propagate for a candidate of the innermost frame
CallsPropagate == pc = "loop" /\ propagations' # propagations

\* C21: within a frame propagate is called with lackey propagation enabled iff
\* propagate_using_lackey is Always or the recursive call of an earlier candidate
\* of the frame returned UnsatisfiableAndBackjumpUsingLackey; a frame that
\* exhausts its candidates without restarting returns
\* UnsatisfiableAndBackjumpUsingLackey iff some candidate's recursive call
\* returned it, otherwise Unsatisfiable; and no invocation returns it unless a
\* lackey is configured with mode RootAndBackjump
C21_LackeyBackjump ==
    [][/\ BackjumpRecorded
       /\ CallsPropagate =>
             (propagated'.use_lackey
                 <=> (params.propagate_using_lackey = "Always"
                      \/ Top.use_lackey_for_propagation))
       /\ (CandidatesExhausted /\ expired' = expired /\ ~returned'.should_restart) =>
             result' = (IF Top.use_lackey_for_propagation
                        THEN "UnsatisfiableAndBackjumpUsingLackey" ELSE "Unsatisfiable")
       /\ result' = "UnsatisfiableAndBackjumpUsingLackey" =>
             (params.lackey /\ params.propagate_using_lackey = "RootAndBackjump")]_vars

\* in mode RootAndBackjump a frame below the root, after a candidate's recursive
\* call returned UnsatisfiableAndBackjumpUsingLackey, has called propagate with
\* the lackey enabled, gone through its candidates and returned the same
C21_Witness ==
    /\ pc = "return" /\ result = "UnsatisfiableAndBackjumpUsingLackey"
    /\ returned.verdict = "none" /\ returned.depth >= 1
    /\ params.propagate_using_lackey = "RootAndBackjump"
    /\ propagated.use_lackey

\* the innermost frame is about to try a value
HasCandidate == pc = "loop" /\ Top.f_v <= Len(Top.branch_v)

\* the domains handed to the first call of propagate_simple_constraints for that
\* value: the copy for the decision, with the unit domain found marked fixed
FirstUnit(nd) == nd[find_unit_domain(nd)]

FirstFilterDomains(nd) == [nd EXCEPT ![find_unit_domain(nd)].fixed = TRUE]

FirstFilterAssignment(nd) ==
    Assignment(FirstUnit(nd).v, CHOOSE c \in FirstUnit(nd).values : TRUE)

CandidateDomains ==
    copy_nonfixed_domains_and_make_assignment(
        Top.domains, Top.domains[Top.branch_domain].v, Top.branch_v[Top.f_v])

\* whether the value c of the domain of pattern vertex w stays, given (p, t)
KeptBySimpleConstraints(w, c, p, t) ==
    /\ (\/ params.injectivity = "Injective"
        \/ (params.injectivity = "LocallyInjective"
             /\ \E n \in PatternVertices :
                   <<p, n>> \in model.pattern_edges[0] /\ <<w, n>> \in model.pattern_edges[0]))
          => c # t
    /\ IF <<p, w>> \in model.pattern_edges[0]
       THEN <<t, c>> \in model.target_edges[0]
       ELSE params.induced => <<t, c>> \notin model.target_edges[0]
    /\ model.directed =>
          IF <<w, p>> \in model.pattern_edges[0]
          THEN <<c, t>> \in model.target_edges[0]
          ELSE params.induced => <<c, t>> \notin model.target_edges[0]
    /\ \A g \in 1..(model.max_graphs - 1) :
          <<p, w>> \in model.pattern_edges[g] => <<t, c>> \in model.target_edges[g]
    /\ model.has_edge_labels =>
          /\ <<p, w>> \in model.pattern_edges[0] =>
                model.target_labels[<<t, c>>] = model.pattern_labels[<<p, w>>]
          /\ <<w, p>> \in model.pattern_edges[0] =>
                model.target_labels[<<c, t>>] = model.pattern_labels[<<w, p>>]

\* r is what the claim says of propagate_simple_constraints(nd, a): the domains
\* are processed in order up to the first that becomes empty
SimpleConstraintsAsClaimed(nd, a, r) ==
    LET kept(i) == {c \in nd[i].values :
                       KeptBySimpleConstraints(nd[i].v, c, a.pattern_vertex, a.target_vertex)}
        emptied == {i \in 1..Len(nd) : ~nd[i].fixed /\ kept(i) = {}}
    IN /\ Len(r.domains) = Len(nd)
       /\ r.ok <=> emptied = {}
       /\ \A i \in 1..Len(nd) :
             IF nd[i].fixed \/ (emptied # {} /\ i > Min(emptied))
             THEN r.domains[i] = nd[i]
             ELSE r.domains[i] = [nd[i] EXCEPT !.values = kept(i),
                                               !.count = Cardinality(kept(i))]

C22_DirectedFailure ==
    /\ HasCandidate /\ model.directed
    /\ LET first(nd) ==
               ~propagate_simple_constraints(FirstFilterDomains(nd),
                                             FirstFilterAssignment(nd)).ok
       IN first(CandidateDomains)

\* the filter is applied in a model with edge labels and removes a value whose
\* target edge is there with another label
C22_LabelRemoved ==
    /\ HasCandidate /\ model.has_edge_labels
    /\ LET seen(nd, a) ==
               \E i \in 1..Len(nd) : \E c \in nd[i].values :
                  /\ ~nd[i].fixed
                  /\ <<a.pattern_vertex, nd[i].v>> \in model.pattern_edges[0]
                  /\ <<a.target_vertex, c>> \in model.target_edges[0]
                  /\ c # a.target_vertex
                  /\ c \notin propagate_simple_constraints(nd, a).domains[i].values
           first(nd) == seen(FirstFilterDomains(nd), FirstFilterAssignment(nd))
       IN first(CandidateDomains)

\* the less-than pairs whose two vertices are both in the domain vector nd
PresentPairs(nd) ==
    {k \in 1..Len(model.pattern_less_thans_in_convenient_order) :
        \A e \in 1..2 : \E i \in 1..Len(nd) :
           nd[i].v = model.pattern_less_thans_in_convenient_order[k][e]}

\* the position in nd of endpoint e (1 for a, 2 for b) of pair k
EndpointDomain(nd, k, e) ==
    CHOOSE i \in 1..Len(nd) : nd[i].v = model.pattern_less_thans_in_convenient_order[k][e]

\* the choices of one value per domain of nd that satisfy every present pair
LessThanChoices(nd) ==
    {f \in [1..Len(nd) -> TargetVertices] :
        /\ \A i \in 1..Len(nd) : f[i] \in nd[i].values
        /\ \A k \in PresentPairs(nd) :
              f[EndpointDomain(nd, k, 1)] < f[EndpointDomain(nd, k, 2)]}

\* the least value of the domain at position i when pair k of the first loop is
\* reached: the pairs before k that have it as b have raised it
RECURSIVE MinWhenProcessed(_, _, _)
MinWhenProcessed(nd, i, k) ==
    IF k = 1 THEN Min(nd[i].values)
    ELSE LET before == MinWhenProcessed(nd, i, k - 1)
         IN IF (k - 1) \in PresentPairs(nd) /\ EndpointDomain(nd, k - 1, 2) = i
            THEN Min({c \in nd[i].values :
                        /\ c >= before
                        /\ c > MinWhenProcessed(nd, EndpointDomain(nd, k - 1, 1), k - 1)})
            ELSE before

\* r is a result of propagate_less_thans(nd) as the claim allows it
LessThansAsClaimed(nd, r) ==
    /\ Len(r.domains) = Len(nd)
    /\ \A i \in 1..Len(nd) :
          /\ r.domains[i].values \subseteq nd[i].values
          /\ \A c \in nd[i].values \ r.domains[i].values :
                ~\E f \in LessThanChoices(nd) : f[i] = c
          /\ r.domains[i].values # nd[i].values =>
                r.domains[i].count = Cardinality(r.domains[i].values)
          /\ (~\E k \in PresentPairs(nd), e \in 1..2 : EndpointDomain(nd, k, e) = i) =>
                r.domains[i] = nd[i]
    /\ ~r.ok => LessThanChoices(nd) = {}
    /\ r.ok =>
          \A k \in PresentPairs(nd) :
             Min(r.domains[EndpointDomain(nd, k, 2)].values)
                > MinWhenProcessed(nd, EndpointDomain(nd, k, 1), k)

\* the domains handed to propagate_less_thans in the first iteration of the loop
\* of propagate for the value about to be tried, when the filter before it
\* succeeds: what propagate_simple_constraints leaves
LessThanInput(nd) ==
    propagate_simple_constraints(FirstFilterDomains(nd), FirstFilterAssignment(nd))

\* C23: propagate_less_thans removes a value only if no choice of one value per
\* domain satisfying every pair present in the vector holds it, returns false
\* only if there is no such choice, updates the count of every domain it
\* changes, leaves alone the pairs with an absent endpoint, and on a true return
\* the least value of b is above the least value a had when the pair was processed
C23_LessThans ==
    (HasCandidate /\ model.has_less_thans) =>
       LET claimed(h) == h.ok => LessThansAsClaimed(h.domains, propagate_less_thans(h.domains))
       IN claimed(LessThanInput(CandidateDomains))

\* propagate_less_thans has removed values and returned true, with both pairs
\* present in the vector
C23_Witness ==
    /\ HasCandidate /\ model.has_less_thans
    /\ LET seen(h) ==
               /\ h.ok
               /\ Cardinality(PresentPairs(h.domains)) = 2
               /\ propagate_less_thans(h.domains).ok
               /\ propagate_less_thans(h.domains).domains # h.domains
       IN seen(LessThanInput(CandidateDomains))

\* propagate_less_thans has returned false
C23_Failure ==
    /\ HasCandidate /\ model.has_less_thans
    /\ LET seen(h) == h.ok /\ ~propagate_less_thans(h.domains).ok
       IN seen(LessThanInput(CandidateDomains))

\* a pair has an endpoint that is not in the vector
C23_PairSkipped ==
    /\ HasCandidate /\ model.has_less_thans
    /\ LET seen(h) ==
               /\ h.ok
               /\ Cardinality(PresentPairs(h.domains))
                     < Len(model.pattern_less_thans_in_convenient_order)
       IN seen(LessThanInput(CandidateDomains))

\* the frames that have ordered their candidates
OrderedFrames == {k \in 1..Len(stack) : stack[k].branch_domain # 0}

\* s holds each value of the branch domain of frame k once
PermutationOfBranchDomain(k) ==
    /\ Len(stack[k].branch_v) = Cardinality(stack[k].domains[stack[k].branch_domain].values)
    /\ {stack[k].branch_v[i] : i \in 1..Len(stack[k].branch_v)}
          = stack[k].domains[stack[k].branch_domain].values

\* s is in the order of a stable sort of ascending vertex indices by degree,
\* descending or ascending
StablySorted(s, descending) ==
    \A i, j \in 1..Len(s) : i < j =>
       \/ (IF descending
            THEN target_degree(0, s[i]) > target_degree(0, s[j])
            ELSE target_degree(0, s[i]) < target_degree(0, s[j]))
       \/ target_degree(0, s[i]) = target_degree(0, s[j]) /\ s[i] < s[j]

\* C24 as stated: under Degree the candidates of a branch are in non-increasing
\* and under AntiDegree in non-decreasing target_degree(0, .) order, candidates of
\* equal degree in ascending vertex index in both cases, and the list is a
\* permutation of the branch domain's values
C24_AsStated ==
    \A k \in OrderedFrames :
       /\ PermutationOfBranchDomain(k)
       /\ params.value_ordering_heuristic = "Degree" => StablySorted(stack[k].branch_v, TRUE)
       /\ params.value_ordering_heuristic = "AntiDegree" => StablySorted(stack[k].branch_v, FALSE)

\* what holds of the two orderings: a permutation, under AntiDegree the stable
\* ascending order, under Degree non-increasing degrees
C24_DegreeOrderings ==
    \A k \in OrderedFrames :
       /\ PermutationOfBranchDomain(k)
       /\ params.value_ordering_heuristic = "AntiDegree" => StablySorted(stack[k].branch_v, FALSE)
       /\ params.value_ordering_heuristic = "Degree" =>
             \A i, j \in 1..Len(stack[k].branch_v) : i < j =>
                target_degree(0, stack[k].branch_v[i]) >= target_degree(0, stack[k].branch_v[j])

\* under Degree two candidates of equal degree are tried highest index first
C24_TieReversed ==
    /\ params.value_ordering_heuristic = "Degree"
    /\ \E k \in OrderedFrames : \E i \in 1..(Len(stack[k].branch_v) - 1) :
          /\ target_degree(0, stack[k].branch_v[i]) = target_degree(0, stack[k].branch_v[i + 1])
          /\ stack[k].branch_v[i] > stack[k].branch_v[i + 1]

====
